---- MODULE Spec2Model ----
(***************************************************************************)
(* CDC ingestion pipeline (Kafka -> ClickHouse): the bulk loader           *)
(* (python/clickhouse_loader.py), the event transformer                    *)
(* (python/transformers.py) and the consumer loop (python/consumer.py).    *)
(*                                                                         *)
(* The specifications share one set of actions:                            *)
(*   Spec           the consumer process: __init__, run(), signals         *)
(*   FairSpec       Spec with a main thread that keeps running             *)
(*   StreamSpec     the consumer process on a longer stream, no errors     *)
(*   FlushSpec      StreamSpec with a batch_size that may be 0             *)
(*   LoaderSpec     load_batch called directly with arbitrary arguments    *)
(*   AdminSpec      load_batch and the administrative operations, directly *)
(*   TransformSpec  _process_message called directly on arbitrary events   *)
(***************************************************************************)
EXTENDS Integers, Sequences, FiniteSets, TLC

VARIABLES
    running,        \* CDCConsumer.running
    pc,             \* position of the main thread in run()/_process_batch
    message_batch,  \* CDCConsumer.message_batch
    metrics,        \* CDCConsumer.metrics
    batch_size,     \* CDCConsumer.batch_size (configuration)
    position,       \* broker consumer: next offset to fetch, per partition
    committed,      \* broker consumer: committed offset, per partition
    deliveries,     \* history: how often each (partition, offset) was returned by poll
    frame,          \* local state of the _process_batch call in progress
    window,         \* history: the flush window in progress or last finished
    exit_code,      \* process exit code of main(): "none" while running
    closed,         \* which connections have been closed
    tstats,         \* CDCTransformer.stats
    idle_ms,        \* history: time without a new event while rows are pending
    signalled,      \* history: a shutdown signal has been delivered
    last_poll,      \* what the most recent consumer.poll gave
    tlast,          \* history: the last direct _process_message call
    skipped,        \* history: the (partition, offset) of every skipped message
    handed,         \* history: the load_batch calls made by _process_batch
    commits,        \* history: number of consumer.commit calls that returned
    flushes,        \* history: number of _process_batch calls made
    stats,          \* ClickHouseLoader.stats
    call,           \* the load_batch call in progress, or the last one finished
                    \* by a direct caller or by raising
    calls,          \* history: number of load_batch calls started
    store,          \* rows held by the store, per table (count)
    admin           \* the administrative operation made on the loader since
                    \* the last load_batch call, if any

vars == <<running, pc, message_batch, metrics, batch_size, position, committed,
          deliveries, frame, window, exit_code, closed, tstats, idle_ms,
          signalled, last_poll, tlast, skipped, handed, commits, flushes,
          stats, call, calls, store, admin>>

loopVars == <<running, pc, message_batch, metrics, batch_size, position,
              committed, deliveries, frame, window, exit_code, closed, tstats,
              idle_ms, signalled, last_poll, tlast, skipped, handed,
              commits, flushes>>

-----------------------------------------------------------------------------
(* Bounds of the model *)

\* the broker delivers at most MaxMessages messages in all
MaxMessages == 2
\* batch_size is drawn from 1 .. MaxBatchSize
MaxBatchSize == 2
\* direct load_batch calls carry 0 .. MaxRows rows
MaxRows == 2
\* LoaderSpec issues at most MaxCalls load_batch calls
MaxCalls == 3
\* TransformSpec issues at most MaxTransforms _process_message calls
MaxTransforms == 2
\* in StreamSpec the broker delivers at most MaxStream messages in all
MaxStream == 3
\* in StreamSpec batch_size is drawn from 1 .. MaxStreamBatch
MaxStreamBatch == 3
\* AdminSpec issues at most MaxAdminCalls load_batch calls
MaxAdminCalls == 2

\* the partitions assigned to the consumer
Partitions == {0, 1}
Offsets ==
    0 .. ((IF MaxStream > MaxMessages THEN MaxStream ELSE MaxMessages) - 1)

RECURSIVE Sum(_, _)
Sum(f, S) == IF S = {} THEN 0
             ELSE LET x == CHOOSE y \in S : TRUE IN f[x] + Sum(f, S \ {x})

-----------------------------------------------------------------------------
(* python/clickhouse_loader.py *)

TABLE_SCHEMAS ==
    [t \in {"customers", "vehicles", "orders", "order_items", "payments"} |->
       CASE t = "customers" ->
              <<"customer_id", "first_name", "last_name", "email", "phone",
                "address", "city", "state", "zip_code", "country",
                "date_of_birth", "customer_since", "is_active",
                "created_at", "updated_at",
                "cdc_operation", "cdc_timestamp", "cdc_source_db",
                "cdc_source_table", "event_time">>
         [] t = "vehicles" ->
              <<"vehicle_id", "vin", "make", "model", "year", "color",
                "mileage", "transmission", "fuel_type", "body_type",
                "engine_size", "price", "status", "condition",
                "description", "features", "listed_date",
                "created_at", "updated_at",
                "cdc_operation", "cdc_timestamp", "cdc_source_db",
                "cdc_source_table", "event_time">>
         [] t = "orders" ->
              <<"order_id", "customer_id", "order_date",
                "total_amount", "tax_amount", "discount_amount", "final_amount",
                "status", "payment_status",
                "shipping_address", "billing_address", "notes",
                "created_at", "updated_at",
                "cdc_operation", "cdc_timestamp", "cdc_source_db",
                "cdc_source_table", "event_time">>
         [] t = "order_items" ->
              <<"order_item_id", "order_id", "vehicle_id",
                "quantity", "unit_price", "discount", "subtotal",
                "warranty_plan", "extended_warranty",
                "created_at", "updated_at",
                "cdc_operation", "cdc_timestamp", "cdc_source_db",
                "cdc_source_table", "event_time">>
         [] OTHER ->
              <<"payment_id", "order_id", "payment_date",
                "payment_method", "amount", "transaction_id",
                "payment_status", "payment_provider",
                "card_last_four", "authorization_code",
                "created_at", "updated_at",
                "cdc_operation", "cdc_timestamp", "cdc_source_db",
                "cdc_source_table", "event_time">>]

\* What client.execute(query, data) can do: succeed, raise a ClickHouseError
\* that is transient (NetworkError, SocketTimeoutError) or not (ServerException
\* for a schema mismatch, TypeMismatchError), or raise an exception that is not
\* a ClickHouseError (EOFError, AttributeError on a malformed value, ...).
ExecuteOutcomes == {"ok", "transient", "nontransient", "other"}

\* except ClickHouseError
IsClickHouseError(outcome) == outcome \in {"transient", "nontransient"}

\* stop_after_attempt(3): tenacity stops once attempt_number >= 3
StopAfterAttempt == 3

\* variant: the ceiling is off by one, a fourth attempt is made
stop_after_attempt_late(attempt_number) == attempt_number > StopAfterAttempt

\* tenacity: after a raised attempt, another one is made unless stop says so
stop_after_attempt(attempt_number) == attempt_number >= StopAfterAttempt

\* record.get(col): the record's value, None ("None") for a missing key
record_get(record, col) ==
    IF col \in DOMAIN record THEN record[col] ELSE "None"

\* variant: the tuple is built from the record's own fields in schema order,
\* columns the record lacks are left out
row_tuple_skipsMissing(record, columns) ==
    LET held == SelectSeq(columns, LAMBDA col : col \in DOMAIN record)
    IN  [j \in 1 .. Len(held) |-> record[held[j]]]

\* the tuple of one record, "for col in columns: row.append(record.get(col))"
row_tuple(record, columns) ==
    [j \in 1 .. Len(columns) |-> record_get(record, columns[j])]

\* data_to_insert: one tuple per record, in record order
data_to_insert(table, records) ==
    [i \in 1 .. Len(records) |-> row_tuple(records[i], TABLE_SCHEMAS[table])]

\* ClickHouseLoader.__init__: self.client, the one connection the loader
\* makes (_create_client)
client == "self.client"

\* ClickHouseLoader.__init__: self.stats
InitStats == [inserts |-> 0, errors |-> 0, batches |-> 0]

NoCall ==
    [state |-> "idle", owner |-> "none", table |-> "none", records |-> <<>>,
     attempt |-> 0, executes |-> 0, result |-> "none",
     last |-> "none", nontransient |-> FALSE, pre |-> InitStats,
     sent |-> <<>>, conn |-> "none",
     pre_store |-> [t \in DOMAIN TABLE_SCHEMAS |-> 0]]

\* A caller enters load_batch(table, records) through the retry wrapper.
BeginCall(owner, table, records) ==
    [state |-> "running", owner |-> owner, table |-> table, records |-> records,
     attempt |-> 0, executes |-> 0, result |-> "none",
     last |-> "none", nontransient |-> FALSE, pre |-> stats,
     sent |-> <<>>, conn |-> "none", pre_store |-> store]

\* variant: the table is validated before the empty-list shortcut
LoadEmpty_tableFirst ==
    /\ call.state = "running"
    /\ call.records = <<>>
    /\ call' = [call EXCEPT !.attempt = @ + 1, !.state = "returned",
                            !.result = IF call.table \in DOMAIN TABLE_SCHEMAS
                                       THEN "True" ELSE "False"]
    /\ UNCHANGED <<stats, store>>

\* One attempt of load_batch's body that ends at "if not records: return True".
LoadEmpty ==
    /\ call.state = "running"
    /\ call.records = <<>>
    /\ call' = [call EXCEPT !.attempt = @ + 1, !.state = "returned",
                            !.result = "True"]
    /\ UNCHANGED <<stats, store>>

\* variant: an unknown table raises inside the retried body instead of
\* returning False
LoadUnknownTable_raises ==
    /\ call.state = "running"
    /\ call.records # <<>>
    /\ call.table \notin DOMAIN TABLE_SCHEMAS
    /\ call' = IF stop_after_attempt(call.attempt + 1)
               THEN [call EXCEPT !.attempt = @ + 1, !.state = "returned",
                                 !.result = "RetryError"]
               ELSE [call EXCEPT !.attempt = @ + 1]
    /\ UNCHANGED <<stats, store>>

\* One attempt that ends at "if table not in self.TABLE_SCHEMAS: return False".
LoadUnknownTable ==
    /\ call.state = "running"
    /\ call.records # <<>>
    /\ call.table \notin DOMAIN TABLE_SCHEMAS
    /\ call' = [call EXCEPT !.attempt = @ + 1, !.state = "returned",
                            !.result = "False"]
    /\ UNCHANGED <<stats, store>>

\* variant: a successful attempt does not end the call, the wrapper goes on
\* to its attempt ceiling
LoadInsertOk_retries ==
    /\ call.state = "running"
    /\ call.records # <<>>
    /\ call.table \in DOMAIN TABLE_SCHEMAS
    /\ store' = [store EXCEPT ![call.table] = @ + Len(call.records)]
    /\ stats' = [stats EXCEPT !.inserts = @ + Len(call.records),
                              !.batches = @ + 1]
    /\ call' = IF stop_after_attempt(call.attempt + 1)
               THEN [call EXCEPT !.attempt = @ + 1, !.executes = @ + 1,
                                 !.conn = client,
                                 !.sent = data_to_insert(call.table, call.records),
                                 !.last = "ok",
                                 !.state = "returned", !.result = "True"]
               ELSE [call EXCEPT !.attempt = @ + 1, !.executes = @ + 1,
                                 !.conn = client,
                                 !.sent = data_to_insert(call.table, call.records),
                                 !.last = "ok"]

\* variant: a successful insert clears the error counter
LoadInsertOk_resetsErrors ==
    /\ call.state = "running"
    /\ call.records # <<>>
    /\ call.table \in DOMAIN TABLE_SCHEMAS
    /\ store' = [store EXCEPT ![call.table] = @ + Len(call.records)]
    /\ stats' = [stats EXCEPT !.inserts = @ + Len(call.records),
                              !.batches = @ + 1, !.errors = 0]
    /\ call' = [call EXCEPT !.attempt = @ + 1, !.executes = @ + 1,
                            !.conn = client,
                            !.sent = data_to_insert(call.table, call.records),
                            !.last = "ok",
                            !.state = "returned", !.result = "True"]

\* One attempt whose client.execute succeeds.
LoadInsertOk ==
    /\ call.state = "running"
    /\ call.records # <<>>
    /\ call.table \in DOMAIN TABLE_SCHEMAS
    /\ store' = [store EXCEPT ![call.table] = @ + Len(call.records)]
    /\ stats' = [stats EXCEPT !.inserts = @ + Len(call.records),
                              !.batches = @ + 1]
    /\ call' = [call EXCEPT !.attempt = @ + 1, !.executes = @ + 1,
                            !.conn = client,
                            !.sent = data_to_insert(call.table, call.records),
                            !.last = "ok",
                            !.state = "returned", !.result = "True"]

\* variant: inserts and batches are counted before client.execute is known to
\* have succeeded
LoadInsertClickHouseError_countsEarly(outcome) ==
    /\ call.state = "running"
    /\ call.records # <<>>
    /\ call.table \in DOMAIN TABLE_SCHEMAS
    /\ IsClickHouseError(outcome)
    /\ stats' = [stats EXCEPT !.errors = @ + 1,
                              !.inserts = @ + Len(call.records),
                              !.batches = @ + 1]
    /\ call' = IF stop_after_attempt(call.attempt + 1)
               THEN [call EXCEPT !.attempt = @ + 1, !.executes = @ + 1,
                                 !.conn = client,
                                 !.sent = data_to_insert(call.table, call.records),
                                 !.last = outcome,
                                 !.nontransient = @ \/ outcome = "nontransient",
                                 !.state = "returned", !.result = "RetryError"]
               ELSE [call EXCEPT !.attempt = @ + 1, !.executes = @ + 1,
                                 !.conn = client,
                                 !.sent = data_to_insert(call.table, call.records),
                                 !.last = outcome,
                                 !.nontransient = @ \/ outcome = "nontransient"]
    /\ UNCHANGED store

\* One attempt whose client.execute raises a ClickHouseError: counted, logged
\* and re-raised into the retry wrapper, which tries again or gives up with
\* RetryError.
LoadInsertClickHouseError(outcome) ==
    /\ call.state = "running"
    /\ call.records # <<>>
    /\ call.table \in DOMAIN TABLE_SCHEMAS
    /\ IsClickHouseError(outcome)
    /\ stats' = [stats EXCEPT !.errors = @ + 1]
    /\ call' = IF stop_after_attempt(call.attempt + 1)
               THEN [call EXCEPT !.attempt = @ + 1, !.executes = @ + 1,
                                 !.conn = client,
                                 !.sent = data_to_insert(call.table, call.records),
                                 !.last = outcome,
                                 !.nontransient = @ \/ outcome = "nontransient",
                                 !.state = "returned", !.result = "RetryError"]
               ELSE [call EXCEPT !.attempt = @ + 1, !.executes = @ + 1,
                                 !.conn = client,
                                 !.sent = data_to_insert(call.table, call.records),
                                 !.last = outcome,
                                 !.nontransient = @ \/ outcome = "nontransient"]
    /\ UNCHANGED store

\* One attempt whose client.execute raises something else: counted and
\* turned into "return False".
LoadInsertOtherError ==
    /\ call.state = "running"
    /\ call.records # <<>>
    /\ call.table \in DOMAIN TABLE_SCHEMAS
    /\ stats' = [stats EXCEPT !.errors = @ + 1]
    /\ call' = [call EXCEPT !.attempt = @ + 1, !.executes = @ + 1,
                            !.conn = client,
                            !.sent = data_to_insert(call.table, call.records),
                            !.last = "other",
                            !.state = "returned", !.result = "False"]
    /\ UNCHANGED store

\* ClickHouseLoader.load_batch, one attempt at a time.
LoadAttempt ==
    \/ LoadEmpty
    \/ LoadUnknownTable
    \/ LoadInsertOk
    \/ \E outcome \in ExecuteOutcomes : LoadInsertClickHouseError(outcome)
    \/ LoadInsertOtherError

-----------------------------------------------------------------------------
(* execute_query, get_table_count, optimize_table *)

\* None where a row count is expected
NoCount == -1

NoAdmin ==
    [op |-> "none", table |-> "none", conn |-> "none", outcome |-> "none",
     raised |-> FALSE, result |-> NoCount]

\* the tables operational tooling asks about
AdminTables == {"customers", "orders"}

\* what client.execute(query) can do for an administrative statement: succeed,
\* raise a ClickHouseError, raise another exception
AdminOutcomes == {"ok", "nontransient", "other"}

\* the result list of "SELECT count() FROM db.table": one tuple holding the
\* number of rows
count_rows(table) == <<<<store[table]>>>>

\* execute_query(query): the result list of self.client.execute, None
\* (<<>> with found = FALSE) when it raises a ClickHouseError; any other
\* exception leaves execute_query
execute_query(outcome, rows) ==
    [found |-> outcome = "ok",
     rows |-> IF outcome = "ok" THEN rows ELSE <<>>,
     raised |-> outcome # "ok" /\ ~IsClickHouseError(outcome)]

\* variant: the count itself is tested for truth, so a count of 0 gives None
get_table_count_zeroIsNone(result) ==
    IF result.found /\ result.rows # <<>> /\ result.rows[1][1] # 0
    THEN result.rows[1][1]
    ELSE NoCount

\* get_table_count: "if result: return result[0][0]", else None
get_table_count(result) ==
    IF result.found /\ result.rows # <<>>
    THEN result.rows[1][1]
    ELSE NoCount

\* get_table_count(table) called by operational tooling between load_batch
\* calls; the query runs on self.client
GetTableCount ==
    /\ call.state # "running"
    /\ \E table \in AdminTables, outcome \in AdminOutcomes :
          LET result == execute_query(outcome, count_rows(table))
          IN  admin' = [op |-> "get_table_count", table |-> table,
                        conn |-> client, outcome |-> outcome,
                        raised |-> result.raised,
                        result |-> get_table_count(result)]
    /\ UNCHANGED <<stats, call, calls, store>>

\* execute_query(query) with an ad-hoc read query (SELECT 1), on self.client
ExecuteQuery ==
    /\ call.state # "running"
    /\ \E outcome \in AdminOutcomes :
          LET result == execute_query(outcome, <<<<1>>>>)
          IN  admin' = [op |-> "execute_query", table |-> "none",
                        conn |-> client, outcome |-> outcome,
                        raised |-> result.raised,
                        result |-> IF result.found THEN Len(result.rows)
                                   ELSE NoCount]
    /\ UNCHANGED <<stats, call, calls, store>>

\* optimize_table(table): OPTIMIZE TABLE ... FINAL on self.client; a
\* ClickHouseError is logged, any other exception leaves optimize_table.
\* Merging parts leaves the rows of the table what they are.
OptimizeTable ==
    /\ call.state # "running"
    /\ \E table \in AdminTables, outcome \in AdminOutcomes :
          admin' = [op |-> "optimize_table", table |-> table,
                    conn |-> client, outcome |-> outcome,
                    raised |-> outcome # "ok" /\ ~IsClickHouseError(outcome),
                    result |-> NoCount]
    /\ UNCHANGED <<stats, call, calls, store>>

-----------------------------------------------------------------------------
(* load_batch called directly *)

\* table names offered to a direct call; "audit_log" is in no schema
DirectTables == {"customers", "orders", "audit_log"}

\* a row as the loop hands it to the loader: its table, its operation tag and
\* (history) the message it came from
Row(table, op, p, o) ==
    [table |-> table, cdc_operation |-> op, part |-> p, off |-> o]

\* sample records for direct calls: each holds some schema columns (one of
\* them with a null value), lacks the others and carries fields that are in
\* no schema or only in another table's
SampleRecordA(table) ==
    [table |-> table, customer_id |-> "1", email |-> "None",
     cdc_operation |-> "INSERT", comment |-> "x"]

SampleRecordB(table) ==
    [table |-> table, order_id |-> "7", first_name |-> "Ann",
     cdc_operation |-> "DELETE"]

DirectRecords(table, n) ==
    [i \in 1 .. n |-> IF i % 2 = 1 THEN SampleRecordA(table)
                                   ELSE SampleRecordB(table)]

\* a caller other than the loop calls load_batch, at most max times, on one
\* of tables
DirectCallOf(max, tables) ==
    /\ call.state # "running"
    /\ calls < max
    /\ \E table \in tables, n \in 0 .. MaxRows :
          call' = BeginCall("direct", table, DirectRecords(table, n))
    /\ calls' = calls + 1
    /\ UNCHANGED <<stats, store>>

DirectCall == DirectCallOf(MaxCalls, DirectTables)

-----------------------------------------------------------------------------
(* python/transformers.py *)

TABLE_MAPPING ==
    [t \in {"customers", "vehicles", "orders", "order_items", "payments"} |-> t]

\* CDCTransformer.__init__: self.stats
InitTStats == [inserts |-> 0, updates |-> 0, deletes |-> 0, errors |-> 0]

\* the skip result of transform (None)
Skip == [kind |-> "skip"]

\* _extract_table_name: topic is the sequence of its dot-delimited segments
\* (topic.split('.')); "none" stands for None
extract_table_name(topic) ==
    IF Len(topic) >= 5
    THEN IF topic[Len(topic)] \in DOMAIN TABLE_MAPPING
         THEN TABLE_MAPPING[topic[Len(topic)]]
         ELSE "none"
    ELSE "none"

\* A payload field holding a row state is "absent" (no such key), "null",
\* "empty" ({}) or "row" (a non-empty mapping).
RowStates == {"absent", "null", "empty", "row"}

\* a millisecond field that the payload lacks: payload.get gives None
NoMs == -1

\* the readings of datetime.now() offered to a transformation, in milliseconds
Clock == {5000, 6001}

\* datetime.fromtimestamp(ms / 1000.0): the whole seconds and the milliseconds
\* within the second
fromtimestamp(ms) == <<ms \div 1000, ms % 1000>>

\* python's "a or b" on two optional numbers: a unless it is None or 0
py_or(a, b) == IF a # NoMs /\ a # 0 THEN a ELSE b

\* _convert_timestamp: "if ts_ms:" holds for a number other than 0; otherwise
\* datetime.now()
convert_timestamp(ts_ms, now) ==
    IF ts_ms # NoMs /\ ts_ms # 0 THEN fromtimestamp(ts_ms) ELSE fromtimestamp(now)

\* result[key] = value on a dict
dict_set(dct, key, value) ==
    [k \in DOMAIN dct \cup {key} |-> IF k = key THEN value ELSE dct[k]]

\* the table a topic names in its last segment
LastSegment(topic) == topic[Len(topic)]

\* the first column of a table's rows, its key
KeyColumn(table) ==
    IF table \in DOMAIN TABLE_SCHEMAS THEN TABLE_SCHEMAS[table][1] ELSE "id"

\* what a payload field in the given row state holds: a row of the table
\* (its key, a changing column, a column that is null) for "row", the empty
\* mapping otherwise
RowValue(state, table, version) ==
    IF state = "row"
    THEN (KeyColumn(table) :> "1") @@ ("updated_at" :> version)
             @@ ("notes" :> "None")
    ELSE [k \in {} |-> "None"]

\* payload['after'] and payload['before'] as mappings
AfterValue(ev) == RowValue(ev.after, LastSegment(ev.topic), "t2")

BeforeValue(ev) == RowValue(ev.before, LastSegment(ev.topic), "t1")

\* the payload itself as a mapping: the keys it holds
PayloadValue(ev) ==
    LET keys == {k \in {"op", "before", "source", "ts_ms", "source_ts_ms"} :
                    \/ k = "op" /\ ev.op # "absent"
                    \/ k = "before" /\ ev.before # "absent"
                    \/ k = "source" /\ ev.source # "absent"
                    \/ k = "ts_ms" /\ ev.ts_ms # NoMs
                    \/ k = "source_ts_ms" /\ ev.source_ts_ms # NoMs}
    IN  [k \in keys |->
           CASE k = "op" -> ev.op
             [] k = "before" -> ev.before
             [] k = "source" -> ev.source
             [] k = "ts_ms" -> ev.ts_ms
             [] OTHER -> ev.source_ts_ms]

\* variant: without a source block, cdc_source_table is filled from the clock
add_cdc_metadata_stampsSource(data, ev, now) ==
    LET r1 == dict_set(data, "cdc_timestamp",
                       convert_timestamp(py_or(ev.ts_ms, ev.source_ts_ms), now))
        r2 == dict_set(r1, "cdc_source_db",
                       IF ev.source = "dict" THEN "ecommerce" ELSE "ecommerce_db")
        r3 == dict_set(r2, "cdc_source_table",
                       IF ev.source = "dict" THEN <<LastSegment(ev.topic)>>
                       ELSE fromtimestamp(now))
    IN  dict_set(r3, "event_time", fromtimestamp(now))

\* variant: columns whose value is null are left out of the copy
add_cdc_metadata_dropsNulls(data, ev, now) ==
    LET kept == [k \in {c \in DOMAIN data : data[c] # "None"} |-> data[k]]
        r1 == dict_set(kept, "cdc_timestamp",
                       convert_timestamp(py_or(ev.ts_ms, ev.source_ts_ms), now))
        r2 == dict_set(r1, "cdc_source_db",
                       IF ev.source = "dict" THEN "ecommerce" ELSE "ecommerce_db")
        r3 == dict_set(r2, "cdc_source_table",
                       IF ev.source = "dict" THEN LastSegment(ev.topic) ELSE "")
    IN  dict_set(r3, "event_time", fromtimestamp(now))

\* _add_cdc_metadata: a copy of data with cdc_timestamp, cdc_source_db,
\* cdc_source_table and event_time set; source is payload.get('source', {})
add_cdc_metadata(data, ev, now) ==
    LET r1 == dict_set(data, "cdc_timestamp",
                       convert_timestamp(py_or(ev.ts_ms, ev.source_ts_ms), now))
        r2 == dict_set(r1, "cdc_source_db",
                       IF ev.source = "dict" THEN "ecommerce" ELSE "ecommerce_db")
        r3 == dict_set(r2, "cdc_source_table",
                       IF ev.source = "dict" THEN LastSegment(ev.topic) ELSE "")
    IN  dict_set(r3, "event_time", fromtimestamp(now))

\* result['table'] = table; result['cdc_operation'] = op
tagged(result, table, op) ==
    dict_set(dict_set(result, "table", table), "cdc_operation", op)

\* _add_cdc_metadata raises when data is None (data.copy()) or when the
\* payload's "source" is null (source.get)
add_cdc_metadata_raises(data, ev) == data = "null" \/ ev.source = "null"

\* _transform_insert: payload.get('after', payload), then _add_cdc_metadata.
\* Result: a row or "raise".
transform_insert(table, ev, p, o, now) ==
    IF add_cdc_metadata_raises(ev.after, ev)
    THEN [kind |-> "raise"]
    ELSE [kind |-> "row", row |-> Row(table, "INSERT", p, o),
          data |-> IF ev.after = "absent" THEN "payload" ELSE "after",
          fields |-> tagged(add_cdc_metadata(IF ev.after = "absent"
                                             THEN PayloadValue(ev)
                                             ELSE AfterValue(ev), ev, now),
                            table, "INSERT")]

\* variant: only a missing or null after-state is refused, {} gives a row
transform_update_emptyOk(table, ev, p, o, now) ==
    IF ev.after \in {"absent", "null"}
    THEN Skip
    ELSE IF add_cdc_metadata_raises(ev.after, ev)
    THEN [kind |-> "raise"]
    ELSE [kind |-> "row", row |-> Row(table, "UPDATE", p, o), data |-> "after",
          fields |-> tagged(add_cdc_metadata(AfterValue(ev), ev, now),
                            table, "UPDATE")]

\* _transform_update: "if not after_data: return None"
transform_update(table, ev, p, o, now) ==
    IF ev.after \in {"absent", "null", "empty"}
    THEN Skip
    ELSE IF add_cdc_metadata_raises(ev.after, ev)
    THEN [kind |-> "raise"]
    ELSE [kind |-> "row", row |-> Row(table, "UPDATE", p, o), data |-> "after",
          fields |-> tagged(add_cdc_metadata(AfterValue(ev), ev, now),
                            table, "UPDATE")]

\* variant: the row of a delete is built from the after-state
transform_delete_fromAfter(table, ev, p, o, now) ==
    IF ev.before \in {"absent", "null", "empty"}
    THEN Skip
    ELSE IF add_cdc_metadata_raises(ev.before, ev)
    THEN [kind |-> "raise"]
    ELSE [kind |-> "row", row |-> Row(table, "DELETE", p, o), data |-> "before",
          fields |-> tagged(add_cdc_metadata(AfterValue(ev), ev, now),
                            table, "DELETE")]

\* _transform_delete: "if not before_data: return None"
transform_delete(table, ev, p, o, now) ==
    IF ev.before \in {"absent", "null", "empty"}
    THEN Skip
    ELSE IF add_cdc_metadata_raises(ev.before, ev)
    THEN [kind |-> "raise"]
    ELSE [kind |-> "row", row |-> Row(table, "DELETE", p, o), data |-> "before",
          fields |-> tagged(add_cdc_metadata(BeforeValue(ev), ev, now),
                            table, "DELETE")]

\* variant: the exception is not caught, it leaves transform uncounted
transform_except_reraises(r, ts1) == [result |-> r, stats |-> ts1]

\* transform's "except Exception": an exception raised in the try block is
\* counted and turned into the skip result; r is what the block came to
transform_except(r, ts1) ==
    IF r.kind = "raise"
    THEN [result |-> Skip, stats |-> [ts1 EXCEPT !.errors = @ + 1]]
    ELSE [result |-> r, stats |-> ts1]

\* CDCTransformer.transform on the event ev that was read at (p, o), with the
\* transformer's counters ts and the clock at now: the result and the counters
\* afterwards.
transform(ev, ts, p, o, now) ==
    LET table_name == extract_table_name(ev.topic)
    IN  IF table_name = "none" THEN [result |-> Skip, stats |-> ts]
        ELSE IF ev.payload # "dict"
             THEN transform_except([kind |-> "raise"], ts)
        ELSE IF ev.op = "absent" THEN [result |-> Skip, stats |-> ts]
        ELSE IF ev.op \in {"c", "r"}
             THEN transform_except(transform_insert(table_name, ev, p, o, now),
                                   [ts EXCEPT !.inserts = @ + 1])
        ELSE IF ev.op = "u"
             THEN transform_except(transform_update(table_name, ev, p, o, now),
                                   [ts EXCEPT !.updates = @ + 1])
        ELSE IF ev.op = "d"
             THEN transform_except(transform_delete(table_name, ev, p, o, now),
                                   [ts EXCEPT !.deletes = @ + 1])
        ELSE [result |-> Skip, stats |-> ts]

-----------------------------------------------------------------------------
(* python/consumer.py *)

\* a topic of the subscription, as its segments
Topic(table) == <<"cdc", "ecommerce", "ecommerce_postgres", "public", table>>

Event(table, decode, op, after, before) ==
    [topic |-> Topic(table), decode |-> decode, payload |-> "dict",
     source |-> "dict", op |-> op, after |-> after, before |-> before,
     ts_ms |-> 1000, source_ts_ms |-> NoMs, commit_ms |-> 3000]

\* The messages the broker hands to the loop: decode says what
\* msg.value().decode('utf-8') and json.loads do with the bytes.
LoopEvents ==
    { Event("customers", "ok", "c", "row", "null"),
      Event("orders", "ok", "d", "null", "row"),
      Event("customers", "ok", "u", "null", "row"),
      Event("orders", "ok", "c", "null", "null"),
      Event("customers", "json_error", "absent", "absent", "absent"),
      Event("customers", "unicode_error", "absent", "absent", "absent") }

\* consumer.poll(timeout=1.0), in milliseconds
PollTimeoutMs == 1000

\* CDCConsumer.batch_timeout_ms: config.get('batch_timeout_ms', 5000)
batch_timeout_ms == 5000

\* no direct _process_message call made yet
NoTransform == [n |-> 0]

\* CDCConsumer.__init__: self.metrics
InitMetrics ==
    [messages_processed |-> 0, messages_failed |-> 0,
     batches_committed |-> 0, last_commit_time |-> "None"]

NoFrame == [ret |-> "none", tables |-> <<>>, idx |-> 0]

NoWindow ==
    [open |-> FALSE, n |-> 0, rows |-> <<>>, failed |-> FALSE, raised |-> FALSE,
     commit_called |-> FALSE,
     pre_committed |-> [p \in Partitions |-> 0], pre_bc |-> 0]

\* variant: the rows are not grouped, every table's list holds the whole batch
RowsOf_all(seq, t) == seq

\* variant: each row is put in front of its table's list
RECURSIVE RowsOf_reversed(_, _)
RowsOf_reversed(seq, t) ==
    IF seq = <<>> THEN <<>>
    ELSE IF Head(seq).table = t
         THEN RowsOf_reversed(Tail(seq), t) \o <<Head(seq)>>
         ELSE RowsOf_reversed(Tail(seq), t)

\* the rows of seq whose table is t, in order
RECURSIVE RowsOf(_, _)
RowsOf(seq, t) ==
    IF seq = <<>> THEN <<>>
    ELSE IF Head(seq).table = t
         THEN <<Head(seq)>> \o RowsOf(Tail(seq), t)
         ELSE RowsOf(Tail(seq), t)

\* the keys of table_batches in insertion order: the tables of seq in order of
\* first appearance
RECURSIVE TableOrder(_, _)
TableOrder(seq, seen) ==
    IF seq = <<>> THEN <<>>
    ELSE IF Head(seq).table \in seen
         THEN TableOrder(Tail(seq), seen)
         ELSE <<Head(seq).table>> \o TableOrder(Tail(seq), seen \cup {Head(seq).table})

\* variant: the connections are closed after the loop instead of in a finally
\* block, so an exception skips the close calls
Exit_leaksOnError(code) ==
    /\ pc' = "exited"
    /\ exit_code' = code
    /\ closed' = IF code = 0 THEN {"consumer", "loader"} ELSE {}

\* run()'s finally (consumer.close(), loader.close()) and main()'s exit code
Exit(code) ==
    /\ pc' = "exited"
    /\ exit_code' = code
    /\ closed' = {"consumer", "loader"}

\* _process_batch is entered with a non-empty message_batch: the rows are
\* grouped by table; ret says where run() continues afterwards
EnterBatch(batch, ret) ==
    /\ pc' = "batch"
    /\ frame' = [ret |-> ret, tables |-> TableOrder(batch, {}), idx |-> 1]
    /\ window' = [open |-> TRUE, n |-> window.n + 1, rows |-> batch,
                  failed |-> FALSE, raised |-> FALSE, commit_called |-> FALSE,
                  pre_committed |-> committed,
                  pre_bc |-> metrics.batches_committed]

\* variant: _process_batch without its guard, an empty batch is flushed too
process_batch_noGuard(batch, ret) ==
    /\ flushes' = flushes + 1
    /\ EnterBatch(batch, ret)

\* self._process_batch(): "if not self.message_batch: return", otherwise the
\* try block is entered
process_batch(batch, ret) ==
    /\ flushes' = flushes + 1
    /\ IF batch = <<>>
       THEN UNCHANGED <<pc, frame, window>>
       ELSE EnterBatch(batch, ret)

\* run(): self.running = True
RunStart ==
    /\ pc = "new"
    /\ running' = TRUE
    /\ pc' = "loop"
    /\ UNCHANGED <<message_batch, metrics, batch_size, position, committed,
                   deliveries, frame, window, exit_code, closed, tstats,
                   idle_ms, signalled, last_poll, tlast,
                   stats, call, calls, store,
                   skipped, handed,
                   commits, flushes, admin>>

\* _signal_handler, at any moment of the process's life
Signal ==
    /\ pc # "exited"
    /\ running' = FALSE
    /\ signalled' = TRUE
    /\ UNCHANGED <<pc, message_batch, metrics, batch_size, position, committed,
                   deliveries, frame, window, exit_code, closed, tstats,
                   idle_ms, last_poll, tlast,
                   stats, call, calls, store,
                   skipped, handed,
                   commits, flushes, admin>>

\* variant: an empty poll leaves the pending rows where they are
PollNone_noFlush ==
    /\ pc = "loop" /\ running
    /\ last_poll' = "None"
    /\ UNCHANGED <<pc, frame, window, idle_ms, flushes>>
    /\ UNCHANGED <<running, message_batch, metrics, batch_size, position,
                   committed, deliveries, exit_code, closed, tstats,
                   signalled, tlast, stats, call, calls, store,
                   skipped, handed, commits, admin>>

\* poll returns None: "if self.message_batch: self._process_batch()"
PollNone ==
    /\ pc = "loop" /\ running
    /\ last_poll' = "None"
    /\ IF message_batch # <<>>
       THEN /\ idle_ms' = idle_ms + PollTimeoutMs
            /\ process_batch(message_batch, "idle")
       ELSE UNCHANGED <<pc, frame, window, idle_ms, flushes>>
    /\ UNCHANGED <<running, message_batch, metrics, batch_size, position,
                   committed, deliveries, exit_code, closed, tstats,
                   signalled, tlast, stats, call, calls, store,
                   skipped, handed, commits, admin>>

\* msg.error().code(): KafkaError._PARTITION_EOF or any other code
BrokerErrorCodes == {"_PARTITION_EOF", "other_error"}

\* variant: only _PARTITION_EOF is ignored, any other broker error is raised
\* as KafkaException
PollError_fatal ==
    /\ pc = "loop" /\ running
    /\ \E code \in BrokerErrorCodes :
          /\ last_poll' = code
          /\ IF code = "_PARTITION_EOF"
             THEN UNCHANGED <<pc, exit_code, closed>>
             ELSE Exit(1)
    /\ UNCHANGED <<running, message_batch, metrics, batch_size, position,
                   committed, deliveries, frame, window,
                   tstats, idle_ms, signalled, tlast, stats, call, calls,
                   store,
                   skipped, handed,
                   commits, flushes, admin>>

\* poll returns a message with msg.error() set (_PARTITION_EOF or another
\* code): logged, continue
PollError ==
    /\ pc = "loop" /\ running
    /\ \E code \in BrokerErrorCodes : last_poll' = code
    /\ UNCHANGED <<running, pc, message_batch, metrics, batch_size, position,
                   committed, deliveries, frame, window, exit_code, closed,
                   tstats, idle_ms, signalled, tlast, stats, call, calls,
                   store,
                   skipped, handed,
                   commits, flushes, admin>>

\* poll raises KafkaException: logged, re-raised, run()'s finally, exit 1
PollRaise ==
    /\ pc = "loop" /\ running
    /\ last_poll' = "raise"
    /\ Exit(1)
    /\ UNCHANGED <<running, message_batch, metrics, batch_size, position,
                   committed, deliveries, frame, window, tstats,
                   idle_ms, signalled, tlast, stats, call, calls, store,
                   skipped, handed,
                   commits, flushes, admin>>

\* _process_message under its retry wrapper (3 attempts), for the message at
\* (p, o): the outcome and the counters afterwards; an exception that leaves
\* transform would take the "except Exception" path like a decode error
process_message(ev, m, ts, p, o, now) ==
    IF ev.decode = "json_error"
    THEN [outcome |-> "None",
          metrics |-> [m EXCEPT !.messages_failed = @ + 1], tstats |-> ts]
    ELSE IF ev.decode = "unicode_error"
    THEN [outcome |-> "RetryError",
          metrics |-> [m EXCEPT !.messages_failed = @ + StopAfterAttempt],
          tstats |-> ts]
    ELSE LET t == transform(ev, ts, p, o, now)
         IN  IF t.result.kind = "row"
             THEN [outcome |-> "row", row |-> t.result.row,
                   fields |-> t.result.fields,
                   metrics |-> m, tstats |-> t.stats]
             ELSE IF t.result.kind = "raise"
             THEN [outcome |-> "RetryError",
                   metrics |-> [m EXCEPT !.messages_failed = @ + StopAfterAttempt],
                   tstats |-> t.stats]
             ELSE [outcome |-> "None", metrics |-> m, tstats |-> t.stats]

\* variant: the size test is strict, the batch is flushed one row late
batch_full_late(batch, n) == Len(batch) > n

\* "if len(self.message_batch) >= self.batch_size"
batch_full(batch, n) == Len(batch) >= n

\* poll returns the next message of partition p, the broker holding max
\* messages in all; it is processed, appended and the batch is flushed when
\* full
PollMessageOf(max, p, ev) ==
    /\ pc = "loop" /\ running
    /\ Sum(position, Partitions) < max
    /\ position' = [position EXCEPT ![p] = @ + 1]
    /\ deliveries' = [deliveries EXCEPT ![p][position[p]] = @ + 1]
    /\ last_poll' = ev.decode
    /\ idle_ms' = 0
    /\ \E now \in Clock :
       LET r == process_message(ev, metrics, tstats, p, position[p], now)
       IN  /\ tstats' = r.tstats
           /\ skipped' = IF r.outcome = "None"
                         THEN skipped \cup {<<p, position[p]>>}
                         ELSE skipped
           /\ IF r.outcome = "RetryError"
              THEN /\ metrics' = r.metrics
                   /\ Exit(1)
                   /\ UNCHANGED <<message_batch, frame, window, flushes>>
              ELSE LET batch == IF r.outcome = "row"
                                THEN Append(message_batch, r.row)
                                ELSE message_batch
                   IN  /\ message_batch' = batch
                       /\ metrics' = IF r.outcome = "row"
                                     THEN [r.metrics EXCEPT
                                             !.messages_processed = @ + 1]
                                     ELSE r.metrics
                       /\ IF batch_full(batch, batch_size)
                          THEN process_batch(batch, "size")
                          ELSE UNCHANGED <<pc, frame, window, flushes>>
                       /\ UNCHANGED <<exit_code, closed>>
    /\ UNCHANGED <<running, batch_size, committed, signalled, tlast,
                   stats, call, calls, store, handed, commits, admin>>

\* the loop's poll, with the broker holding MaxMessages messages
PollMessage(p, ev) == PollMessageOf(MaxMessages, p, ev)

\* "while self.running" is false: the remaining batch is flushed, or run()
\* ends at once
LoopExit ==
    /\ pc = "loop" /\ ~running
    /\ IF message_batch # <<>>
       THEN /\ process_batch(message_batch, "final")
            /\ UNCHANGED <<exit_code, closed>>
       ELSE Exit(0) /\ UNCHANGED <<frame, window, flushes>>
    /\ UNCHANGED <<running, message_batch, metrics, batch_size, position,
                   committed, deliveries, tstats, idle_ms, signalled,
                   last_poll, tlast, stats, call, calls, store,
                   skipped, handed, commits, admin>>

\* _process_batch: the next table's records go to self.loader.load_batch
BatchLoadCall ==
    /\ pc = "batch"
    /\ frame.idx <= Len(frame.tables)
    /\ call' = BeginCall("loop", frame.tables[frame.idx],
                         RowsOf(message_batch, frame.tables[frame.idx]))
    /\ calls' = calls + 1
    /\ handed' = Append(handed,
                        [table |-> frame.tables[frame.idx],
                         records |-> RowsOf(message_batch, frame.tables[frame.idx]),
                         trigger |-> frame.ret, window |-> window.n])
    /\ pc' = "load"
    /\ UNCHANGED <<running, message_batch, metrics, batch_size, position,
                   committed, deliveries, frame, window, exit_code, closed,
                   tstats, idle_ms, signalled, last_poll, tlast, stats, store,
                   skipped, commits, flushes, admin>>

\* variant: the retry wrapper looks at self.running and gives the load up
\* once shutdown has been requested
LoopLoadAttempt_abortsOnShutdown ==
    /\ pc = "load"
    /\ IF running
       THEN LoadAttempt
       ELSE /\ call.state = "running"
            /\ call' = [call EXCEPT !.state = "returned",
                                    !.result = "RetryError"]
            /\ UNCHANGED <<stats, store>>
    /\ UNCHANGED <<loopVars, calls, admin>>

\* load_batch running inside _process_batch
LoopLoadAttempt ==
    /\ pc = "load"
    /\ LoadAttempt
    /\ UNCHANGED <<loopVars, calls, admin>>

\* load_batch returned True or False: "if success: ... else:
\* messages_failed += len(records)" and on to the next table; the call is
\* over
BatchLoadReturned ==
    /\ pc = "load"
    /\ call.state = "returned"
    /\ call.result \in {"True", "False"}
    /\ metrics' = IF call.result = "True" THEN metrics
                  ELSE [metrics EXCEPT !.messages_failed = @ + Len(call.records)]
    /\ window' = IF call.result = "True" THEN window
                 ELSE [window EXCEPT !.failed = TRUE]
    /\ frame' = [frame EXCEPT !.idx = @ + 1]
    /\ pc' = "batch"
    /\ call' = NoCall
    /\ UNCHANGED <<running, message_batch, batch_size, position, committed,
                   deliveries, exit_code, closed, tstats, idle_ms, signalled,
                   last_poll, tlast, stats, calls, store,
                   skipped, handed,
                   commits, flushes, admin>>

\* variant: the commit sits in the finally block and runs on the error path too
BatchLoadRaised_commits ==
    /\ pc = "load"
    /\ call.state = "returned"
    /\ call.result = "RetryError"
    /\ window' = [window EXCEPT !.failed = TRUE, !.raised = TRUE, !.open = FALSE,
                                !.commit_called = TRUE]
    /\ message_batch' = <<>>
    /\ committed' = position
    /\ metrics' = [metrics EXCEPT !.batches_committed = @ + 1,
                                  !.last_commit_time = "set"]
    /\ Exit(1)
    /\ idle_ms' = 0
    /\ commits' = commits + 1
    /\ UNCHANGED <<running, batch_size, position,
                   deliveries, frame, tstats, signalled, last_poll,
                   tlast, stats, call, calls, store,
                   skipped, handed, flushes, admin>>

\* load_batch raised (RetryError): _process_batch logs, re-raises and clears
\* the batch in its finally; run() re-raises, closes; main() exits 1
BatchLoadRaised ==
    /\ pc = "load"
    /\ call.state = "returned"
    /\ call.result = "RetryError"
    /\ window' = [window EXCEPT !.failed = TRUE, !.raised = TRUE, !.open = FALSE]
    /\ message_batch' = <<>>
    /\ Exit(1)
    /\ idle_ms' = 0
    /\ UNCHANGED <<running, metrics, batch_size, position, committed,
                   deliveries, frame, tstats, signalled, last_poll,
                   tlast, stats, call, calls, store,
                   skipped, handed,
                   commits, flushes, admin>>

\* variant: after the final flush run() goes back to the loop head
AfterBatch_loops == pc' = "loop" /\ UNCHANGED <<exit_code, closed>>

\* where run() goes on after _process_batch returned
AfterBatch ==
    IF frame.ret = "final"
    THEN Exit(0)
    ELSE pc' = "loop" /\ UNCHANGED <<exit_code, closed>>

\* all tables done: self.consumer.commit(asynchronous=False) commits the
\* consumed positions; metrics; finally: message_batch.clear()
BatchCommit ==
    /\ pc = "batch"
    /\ frame.idx > Len(frame.tables)
    /\ committed' = position
    /\ metrics' = [metrics EXCEPT !.batches_committed = @ + 1,
                                  !.last_commit_time = "set"]
    /\ window' = [window EXCEPT !.commit_called = TRUE, !.open = FALSE]
    /\ message_batch' = <<>>
    /\ AfterBatch
    /\ idle_ms' = 0
    /\ commits' = commits + 1
    /\ UNCHANGED <<running, batch_size, position, deliveries, frame, tstats,
                   signalled, last_poll, tlast, stats, call, calls, store,
                   skipped, handed, flushes, admin>>

\* variant: batches_committed and last_commit_time are set before the commit,
\* so they change although the commit raises
BatchCommitRaise_counts ==
    /\ pc = "batch"
    /\ frame.idx > Len(frame.tables)
    /\ window' = [window EXCEPT !.commit_called = TRUE, !.open = FALSE]
    /\ message_batch' = <<>>
    /\ metrics' = [metrics EXCEPT !.batches_committed = @ + 1,
                                  !.last_commit_time = "set"]
    /\ Exit(1)
    /\ idle_ms' = 0
    /\ UNCHANGED <<running, batch_size, position, committed,
                   deliveries, frame, tstats, signalled, last_poll,
                   tlast, stats, call, calls, store,
                   skipped, handed,
                   commits, flushes, admin>>

\* commit raises KafkaException: finally clears the batch; run() re-raises
BatchCommitRaise ==
    /\ pc = "batch"
    /\ frame.idx > Len(frame.tables)
    /\ window' = [window EXCEPT !.commit_called = TRUE, !.open = FALSE]
    /\ message_batch' = <<>>
    /\ Exit(1)
    /\ idle_ms' = 0
    /\ UNCHANGED <<running, metrics, batch_size, position, committed,
                   deliveries, frame, tstats, signalled, last_poll,
                   tlast, stats, call, calls, store,
                   skipped, handed,
                   commits, flushes, admin>>

-----------------------------------------------------------------------------
(* Specifications *)

InitLoader ==
    /\ stats = InitStats
    /\ call = NoCall
    /\ calls = 0
    /\ store = [t \in DOMAIN TABLE_SCHEMAS |-> 0]
    /\ admin = NoAdmin

\* the state after CDCConsumer(config), batch_size being one of sizes
InitConsumer(sizes) ==
    /\ idle_ms = 0
    /\ skipped = {}
    /\ handed = <<>>
    /\ commits = 0
    /\ flushes = 0
    /\ signalled = FALSE
    /\ last_poll = "none"
    /\ tlast = NoTransform
    /\ running = FALSE
    /\ pc = "new"
    /\ message_batch = <<>>
    /\ metrics = InitMetrics
    /\ batch_size \in sizes
    /\ position = [p \in Partitions |-> 0]
    /\ committed = [p \in Partitions |-> 0]
    /\ deliveries = [p \in Partitions |-> [o \in Offsets |-> 0]]
    /\ frame = NoFrame
    /\ window = NoWindow
    /\ exit_code = -1
    /\ closed = {}
    /\ tstats = InitTStats
    /\ InitLoader

Init == InitConsumer(1 .. MaxBatchSize)

Next ==
    \/ RunStart
    \/ Signal
    \/ PollNone
    \/ PollError
    \/ PollRaise
    \/ \E p \in Partitions, ev \in LoopEvents : PollMessage(p, ev)
    \/ LoopExit
    \/ BatchLoadCall
    \/ LoopLoadAttempt
    \/ BatchLoadReturned
    \/ BatchLoadRaised
    \/ BatchCommit
    \/ BatchCommitRaise

Spec == Init /\ [][Next]_vars

\* the steps of the main thread: everything but the signal handler
MainStep ==
    \/ RunStart
    \/ PollNone
    \/ PollError
    \/ PollRaise
    \/ \E p \in Partitions, ev \in LoopEvents : PollMessage(p, ev)
    \/ LoopExit
    \/ BatchLoadCall
    \/ LoopLoadAttempt
    \/ BatchLoadReturned
    \/ BatchLoadRaised
    \/ BatchCommit
    \/ BatchCommitRaise

\* the main thread keeps running: run() is called, and every poll, insert
\* attempt and commit returns or raises
FairSpec == Spec /\ WF_vars(MainStep)

\* load_batch running for a direct caller
DirectLoadAttempt ==
    /\ call.owner = "direct"
    /\ LoadAttempt
    /\ UNCHANGED <<loopVars, calls, admin>>

DirectCallStep == DirectCall /\ admin' = NoAdmin /\ UNCHANGED loopVars

LoaderNext ==
    \/ DirectCallStep
    \/ DirectLoadAttempt

LoaderSpec == Init /\ [][LoaderNext]_vars

\* operational tooling: load_batch on the tables it asks about and the
\* administrative operations of the loader, one after the other
AdminCallStep ==
    /\ DirectCallOf(MaxAdminCalls, AdminTables)
    /\ admin' = NoAdmin
    /\ UNCHANGED loopVars

GetTableCountStep == GetTableCount /\ UNCHANGED loopVars

ExecuteQueryStep == ExecuteQuery /\ UNCHANGED loopVars

OptimizeTableStep == OptimizeTable /\ UNCHANGED loopVars

AdminNext ==
    \/ AdminCallStep
    \/ DirectLoadAttempt
    \/ GetTableCountStep
    \/ ExecuteQueryStep
    \/ OptimizeTableStep

AdminSpec == Init /\ [][AdminNext]_vars

\* The messages of an undisturbed stream: row-producing events of two tables
\* and an event that is skipped.
StreamEvents ==
    { Event("customers", "ok", "c", "row", "null"),
      Event("orders", "ok", "d", "null", "row"),
      Event("customers", "ok", "u", "null", "row") }

\* the loop's poll, with the broker holding MaxStream messages
StreamPoll(p, ev) == PollMessageOf(MaxStream, p, ev)

\* load_batch inside _process_batch, the store accepting the insert
StreamLoadAttempt ==
    /\ pc = "load"
    /\ LoadInsertOk
    /\ UNCHANGED <<loopVars, calls, admin>>

\* the consumer process without errors: the broker and the store do not
\* fail, every message is decodable
StreamNext ==
    \/ RunStart
    \/ Signal
    \/ PollNone
    \/ \E p \in Partitions, ev \in StreamEvents : StreamPoll(p, ev)
    \/ LoopExit
    \/ BatchLoadCall
    \/ StreamLoadAttempt
    \/ BatchLoadReturned
    \/ BatchCommit

StreamInit == InitConsumer(1 .. MaxStreamBatch)

StreamSpec == StreamInit /\ [][StreamNext]_vars

\* the consumer process without errors, configured with any batch_size that
\* config.get('batch_size', 100) can give up to MaxBatchSize, 0 included
FlushInit == InitConsumer(0 .. MaxBatchSize)

FlushSpec == FlushInit /\ [][StreamNext]_vars

\* the (after, before) states offered to direct _process_message calls
RowStatePairs ==
    {<<a, "null">> : a \in RowStates} \cup {<<"null", b>> : b \in RowStates}

\* a decoded event of any shape
ShapeEvent(t, pl, src, op, ab, ts, sts, cms) ==
    [topic |-> t, decode |-> "ok", payload |-> pl, source |-> src,
     op |-> op, after |-> ab[1], before |-> ab[2],
     ts_ms |-> ts, source_ts_ms |-> sts, commit_ms |-> cms]

\* topics with a known table, an unknown table and too few segments
TransformTopics == {Topic("customers"), Topic("audit_log"), <<"customers">>}

\* the events offered to direct _process_message calls: every topic,
\* operation code and row state in a well-formed envelope; envelopes whose
\* payload is not a JSON object or whose source block is null or missing;
\* every combination of the millisecond fields; two undecodable messages
TransformEvents ==
    { ShapeEvent(t, "dict", "dict", op, ab, 1000, NoMs, 3000) :
         t \in TransformTopics,
         op \in {"c", "r", "u", "d", "x", "absent"},
         ab \in RowStatePairs }
    \cup { ShapeEvent(t, e[1], e[2], op, ab, 1000, NoMs, 3000) :
         t \in TransformTopics,
         e \in {<<"other", "dict">>, <<"dict", "null">>, <<"dict", "absent">>},
         op \in {"c", "u", "d"},
         ab \in {<<"row", "null">>, <<"null", "row">>, <<"empty", "null">>} }
    \cup { ShapeEvent(Topic("customers"), "dict", src, op, <<"row", "null">>,
                      ts, sts, cms) :
         src \in {"dict", "absent"},
         op \in {"c", "u"},
         ts \in {NoMs, 0, 1000},
         sts \in {NoMs, 2000},
         cms \in {NoMs, 3000} }
    \cup { Event("customers", "json_error", "absent", "absent", "absent"),
           Event("customers", "unicode_error", "absent", "absent", "absent") }

\* _process_message called on any event, outside run()
ProcessMessageCall ==
    /\ tlast.n < MaxTransforms
    /\ \E ev \in TransformEvents, now \in Clock :
          LET r == process_message(ev, metrics, tstats, 0, tlast.n, now)
          IN  /\ tstats' = r.tstats
              /\ metrics' = r.metrics
              /\ tlast' = [n |-> tlast.n + 1, ev |-> ev, outcome |-> r.outcome,
                           now |-> now,
                           fields |-> IF r.outcome = "row" THEN r.fields
                                      ELSE [k \in {} |-> "None"],
                           pre_tstats |-> tstats, pre_metrics |-> metrics]
    /\ UNCHANGED <<running, pc, message_batch, batch_size, position, committed,
                   deliveries, frame, window, exit_code, closed, idle_ms,
                   signalled, last_poll, stats, call, calls, store,
                   skipped, handed,
                   commits, flushes, admin>>

TransformNext == ProcessMessageCall

TransformSpec == Init /\ [][TransformNext]_vars

-----------------------------------------------------------------------------
(* Properties of the flush window (Spec) *)

\* the rows of seq as a set
RowSet(seq) == {seq[i] : i \in DOMAIN seq}

\* C1: in a flush window, consumer.commit is called only if load_batch
\* succeeded for every table of the window; a window with a failed load (False
\* returned or an exception raised) is never committed.
C1_CommitOnlyIfAllLoaded == ~(window.failed /\ window.commit_called)

\* C2: when a flush's load failed, the rows of that window are still in the
\* pending batch once _process_batch has finished.
C2_FailedWindowRowsHeld ==
    (window.failed /\ ~window.open) => RowSet(window.rows) \subseteq RowSet(message_batch)

\* C3: when load_batch failed on all 3 attempts with a store error, every
\* partition's committed offset and the batches_committed metric are what
\* they were before the flush attempt.
C3_ExhaustedLoadKeepsOffsets ==
    window.raised =>
        /\ committed = window.pre_committed
        /\ metrics.batches_committed = window.pre_bc

\* a window whose load was given up after three store errors, entered after an
\* earlier window had been committed and with consumed but uncommitted messages
C3_Witness ==
    /\ window.raised
    /\ call.result = "RetryError"
    /\ call.executes = StopAfterAttempt
    /\ \E p \in Partitions : committed[p] > 0
    /\ \E p \in Partitions : position[p] > committed[p]

\* C4: after a window's load failed and its offsets were withheld, every
\* message of the window is delivered again by a later poll; so when the
\* process has ended, each of them has been delivered at least twice.
C4_WithheldWindowRedelivered ==
    (pc = "exited" /\ window.raised) =>
        \A i \in DOMAIN window.rows :
            deliveries[window.rows[i].part][window.rows[i].off] >= 2

-----------------------------------------------------------------------------
(* Properties of load_batch (LoaderSpec) *)

\* C5: one load_batch call makes at most 3 insert attempts: after a transient
\* error on attempt 1 or 2 it goes on to another attempt, a successful attempt
\* ends the call with True, and the third failed attempt ends it with a
\* failure, without a fourth.
C5_AtMostThreeAttempts ==
    /\ call.attempt <= 3
    /\ call.executes <= 3
    /\ (call.last = "transient" /\ call.attempt < 3) => call.state = "running"
    /\ (call.last = "transient" /\ call.attempt = 3) =>
           (call.state = "returned" /\ call.result = "RetryError")
    /\ call.last = "ok" => (call.state = "returned" /\ call.result = "True")
    /\ call.result = "RetryError" => call.executes = 3

\* a call that succeeded on its third attempt
C5_Witness ==
    /\ call.state = "returned"
    /\ call.result = "True"
    /\ call.executes = 3
    /\ ~call.nontransient

\* C6: a non-transient store error is not retried: the call makes exactly one
\* insert attempt.
C6_NonTransientNotRetried == call.nontransient => call.executes = 1

\* C7: the errors counter increases only when a call finally fails; a call
\* that succeeds after failed attempts leaves errors unchanged.
C7_ErrorsOnlyOnFinalFailure ==
    (call.state = "returned" /\ call.result = "True") =>
        stats.errors = call.pre.errors

\* C8: a successful call with a non-empty row list adds exactly len(rows) to
\* inserts and exactly 1 to batches, whatever number of failed attempts came
\* before the successful one.
C8_SuccessCountsOnce ==
    (call.state = "returned" /\ call.result = "True" /\ call.records # <<>>) =>
        /\ stats.inserts = call.pre.inserts + Len(call.records)
        /\ stats.batches = call.pre.batches + 1

\* a call of MaxRows rows that succeeded after two failed attempts, made when
\* the counters were no longer zero
C8_Witness ==
    /\ call.state = "returned"
    /\ call.result = "True"
    /\ Len(call.records) = MaxRows
    /\ call.attempt = 3
    /\ call.pre.batches > 0

\* C9: a call with a non-empty row list and a table outside the schema
\* registry reports failure, issues no write and is not retried.
C9_UnknownTableFails ==
    (call.records # <<>> /\ call.table \notin DOMAIN TABLE_SCHEMAS
        /\ call.owner # "none") =>
        /\ call.executes = 0
        /\ call.attempt <= 1
        /\ stats = call.pre
        /\ call.state = "returned" => (call.result = "False" /\ call.attempt = 1)

\* a finished call on the unknown table with rows
C9_Witness ==
    /\ call.state = "returned"
    /\ call.table = "audit_log"
    /\ call.records # <<>>
    /\ call.result = "False"

\* C10: a call with an empty row list returns success for any table name,
\* issues no write and leaves inserts, batches and errors unchanged.
C10_EmptyIsNoOp ==
    (call.state = "returned" /\ call.records = <<>>) =>
        /\ call.result = "True"
        /\ call.executes = 0
        /\ stats = call.pre

\* a finished call with no rows on a table that has no schema, made after
\* earlier calls had moved the counters
C10_Witness ==
    /\ call.state = "returned"
    /\ call.records = <<>>
    /\ call.table \notin DOMAIN TABLE_SCHEMAS
    /\ call.result = "True"
    /\ stats.errors > 0
    /\ stats.batches > 0

\* the tuple the claim expects for record under the column list columns
ExpectedTuple(record, columns, t) ==
    /\ Len(t) = Len(columns)
    /\ \A j \in 1 .. Len(columns) :
          t[j] = IF columns[j] \in DOMAIN record THEN record[columns[j]]
                 ELSE "None"

\* the statement last sent by the call holds the expected tuples, one per
\* record, in record order
ExpectedStatement ==
    /\ Len(call.sent) = Len(call.records)
    /\ \A i \in 1 .. Len(call.records) :
          ExpectedTuple(call.records[i], TABLE_SCHEMAS[call.table], call.sent[i])

\* C11 as stated: for every known table and every list of rows, a load_batch
\* call sends one bulk-insert statement with exactly one tuple per row in row
\* order, each tuple holding the declared columns in declared order.
C11_OneStatementPerCall ==
    (call.state = "returned" /\ call.table \in DOMAIN TABLE_SCHEMAS) =>
        /\ call.executes = 1
        /\ ExpectedStatement

\* C11 amended: for every known table and every non-empty list of rows, each
\* insert attempt of load_batch sends one statement with exactly one tuple per
\* row in row order, each tuple holding the table's declared columns in
\* declared order (the row's value, null for a column it lacks, nothing for
\* fields outside the schema); a call makes one to three such attempts, and an
\* empty list sends no statement.
C11_EachAttemptSendsAllRows ==
    /\ (call.table \in DOMAIN TABLE_SCHEMAS /\ call.records # <<>>
            /\ call.executes > 0) => ExpectedStatement
    /\ (call.state = "returned" /\ call.table \in DOMAIN TABLE_SCHEMAS
            /\ call.records # <<>>) => call.executes \in 1 .. 3
    /\ (call.owner # "none" /\ call.records = <<>>) =>
           (call.executes = 0 /\ call.sent = <<>>)

\* a statement of MaxRows tuples for orders: a column with the row's value,
\* a column the row lacks, and a row field outside the schema
C11_Witness ==
    /\ call.table = "orders"
    /\ Len(call.records) = MaxRows
    /\ call.executes > 0
    /\ call.sent[1][1] = "None"
    /\ call.sent[1][2] = "1"
    /\ "email" \in DOMAIN call.records[1]

-----------------------------------------------------------------------------
(* Properties of the flush triggers (Spec) *)

\* C12: with batch size N >= 1 a flush is started as soon as N rows are
\* pending and never because of size with fewer: a size-triggered window holds
\* exactly N rows, and at every poll fewer than N rows are pending.
C12_SizeTriggeredFlush ==
    /\ batch_size >= 1
    /\ pc = "loop" => Len(message_batch) < batch_size
    /\ (window.open /\ frame.ret = "size") =>
           (Len(window.rows) = batch_size /\ message_batch = window.rows)

\* a size-triggered flush of the largest batch size
C12_Witness ==
    /\ window.open
    /\ frame.ret = "size"
    /\ pc = "batch"
    /\ batch_size = MaxBatchSize
    /\ Len(message_batch) = MaxBatchSize

\* C13: with 1 .. N-1 rows pending, a flush for idleness happens only after no
\* new event has been observed for at least batch_timeout_ms.
C13_IdleFlushAfterTimeout ==
    (window.open /\ frame.ret = "idle") => idle_ms >= batch_timeout_ms

-----------------------------------------------------------------------------
(* Properties of shutdown (Spec, FairSpec) *)

\* the loop's state in the terms STOPPED, RUNNING, DRAINING
phase ==
    IF pc \in {"new", "exited"} THEN "STOPPED"
    ELSE IF pc \in {"batch", "load"} /\ frame.ret = "final" THEN "DRAINING"
    ELSE "RUNNING"

\* position in the order STOPPED, RUNNING, DRAINING, STOPPED
rank ==
    IF pc = "new" THEN 0
    ELSE IF pc = "exited" THEN 3
    ELSE IF phase = "DRAINING" THEN 2
    ELSE 1

\* an upper bound on the steps the final flush still has to take: per table
\* left one call, its attempts and its return, then the commit
DrainWork ==
    IF pc = "exited" THEN 0
    ELSE IF pc = "load"
         THEN 1 + 10 * (Len(frame.tables) - frame.idx)
                + (IF call.state = "running"
                   THEN 2 + StopAfterAttempt - call.attempt ELSE 1)
         ELSE 1 + 10 * (Len(frame.tables) - frame.idx + 1)

\* the loop head finds self.running false
ObservesShutdown == pc = "loop" /\ ~running /\ pc' # "loop"

\* C14 (steps): the states are visited in the order STOPPED, RUNNING,
\* DRAINING, STOPPED; once the loop has observed the shutdown request there is
\* no further poll, and exactly one final flush is made if and only if the
\* pending batch is non-empty.
C14_ShutdownSteps ==
    /\ rank' >= rank
    /\ ObservesShutdown =>
          /\ last_poll' = last_poll /\ position' = position
          /\ IF message_batch # <<>>
             THEN /\ phase' = "DRAINING"
                  /\ window'.n = window.n + 1
                  /\ window'.rows = message_batch
             ELSE /\ pc' = "exited"
                  /\ window' = window /\ calls' = calls
    /\ phase = "DRAINING" =>
          /\ last_poll' = last_poll /\ position' = position
          /\ window'.n = window.n
          /\ phase' \in {"DRAINING", "STOPPED"}
          /\ DrainWork' < DrainWork

\* C14: graceful shutdown.  Once the loop has observed the shutdown request
\* it polls no more, makes exactly one final flush if and only if the batch is
\* non-empty, and reaches STOPPED: while draining, the main thread always has
\* a step to take and every step brings it closer to STOPPED.  The states are
\* visited in the order STOPPED, RUNNING, DRAINING, STOPPED.
C14_GracefulShutdown ==
    /\ [][C14_ShutdownSteps]_vars
    /\ []((phase = "DRAINING" \/ (pc = "loop" /\ ~running)) => ENABLED MainStep)

\* the final flush of a non-empty batch has been committed and the loop has
\* stopped cleanly
C14_Witness ==
    /\ pc = "exited"
    /\ frame.ret = "final"
    /\ window.commit_called
    /\ window.rows # <<>>
    /\ exit_code = 0

\* C15: a shutdown signal delivered at any moment after the handlers are
\* installed is never lost: the loop eventually stops polling and reaches
\* STOPPED.
C15_SignalNeverLost == signalled ~> (pc = "exited")

\* C16: on every exit of run() (clean shutdown, load failure, message
\* processing failure, broker failure) the broker consumer and the store
\* connection are both closed before run() returns or raises.
C16_ClosedOnEveryExit ==
    (pc = "exited" \/ exit_code # -1) => closed = {"consumer", "loader"}

\* run() left by a load that was given up, with rows of the window lost from
\* memory
C16_Witness ==
    /\ pc = "exited"
    /\ exit_code = 1
    /\ window.raised
    /\ closed = {"consumer", "loader"}

\* the commit of the last window raised: it was called, the window is over
\* and batches_committed was not incremented
CommitRaised ==
    window.commit_called /\ ~window.open /\ metrics.batches_committed = window.pre_bc

\* an exception left run(): from a load, from _process_message, from poll or
\* from commit
ExceptionLeftRun ==
    \/ window.raised
    \/ last_poll \in {"raise", "unicode_error"}
    \/ CommitRaised

\* C17: the exit code is zero exactly when the loop ended by a clean shutdown
\* (shutdown requested and the final flush succeeded), and non-zero when an
\* exception left the loop, a broker exception from poll or commit included.
C17_ExitCode ==
    pc = "exited" =>
        (exit_code = 0 <=>
            (/\ ~running
             /\ ~ExceptionLeftRun
             /\ frame.ret = "final" => ~window.failed))

\* C18 (step): a poll that gives a message with a broker error changes
\* nothing and leaves the loop at its head, to poll again.
C18_ErrorPollStep ==
    (last_poll' \in BrokerErrorCodes /\ last_poll' # last_poll) =>
        /\ pc = "loop" /\ pc' = "loop"
        /\ running' = running
        /\ message_batch' = message_batch
        /\ metrics' = metrics
        /\ committed' = committed
        /\ position' = position
        /\ exit_code' = exit_code /\ closed' = closed
        /\ stats' = stats /\ tstats' = tstats /\ calls' = calls

\* C18: a polled message carrying a broker-reported error does not end the
\* loop and changes neither the pending batch, the metrics nor the committed
\* offsets.
C18_BrokerErrorIgnored == [][C18_ErrorPollStep]_vars

\* an error other than end-of-partition was polled while a row was pending
C18_Witness ==
    /\ last_poll = "other_error"
    /\ pc = "loop"
    /\ running
    /\ message_batch # <<>>

\* C19 (step): the poll of a message that cannot be decoded adds exactly one
\* to messages_failed, nothing to the batch, and the loop goes on.
C19_UndecodableStep ==
    (last_poll' \in {"json_error", "unicode_error"} /\ position' # position) =>
        /\ metrics'.messages_failed = metrics.messages_failed + 1
        /\ message_batch' = message_batch
        /\ pc' = "loop"

\* C19: a message whose payload cannot be decoded (invalid JSON, bytes that
\* are not valid text, a missing value) counts once as failed, is not retried
\* and does not stop the loop.
C19_UndecodableSkipped == [][C19_UndecodableStep]_vars

-----------------------------------------------------------------------------
(* Properties of transform (TransformSpec) *)

\* the events on which something inside transform's try block raises: the
\* table is known and the payload is not a JSON object, or the row to copy is
\* null, or "source" is null where a row is built
RaisesInTransform(ev) ==
    /\ Len(ev.topic) >= 5
    /\ ev.topic[Len(ev.topic)] \in DOMAIN TABLE_MAPPING
    /\ \/ ev.payload # "dict"
       \/ ev.op \in {"c", "r"} /\ (ev.after = "null" \/ ev.source = "null")
       \/ ev.op = "u" /\ ev.after = "row" /\ ev.source = "null"
       \/ ev.op = "d" /\ ev.before = "row" /\ ev.source = "null"

-----------------------------------------------------------------------------
(* Properties of skipped messages (Spec) *)

\* C21: a skipped message (unknown table, missing or unknown operation,
\* update without after-state, delete without before-state, decode error) is
\* considered consumed: when the loop has ended by clean shutdown, the
\* committed offset of its partition lies beyond the message.
C21_SkippedIsConsumed ==
    (pc = "exited" /\ exit_code = 0) =>
        \A m \in skipped : committed[m[1]] > m[2]

-----------------------------------------------------------------------------
(* Properties of the rows transform builds (TransformSpec) *)

\* the keys transform sets on a row: the CDC provenance columns, the
\* operation tag and the routing key 'table'
MetadataKeys ==
    {"cdc_operation", "cdc_timestamp", "cdc_source_db", "cdc_source_table",
     "event_time", "table"}

\* the columns of a produced row other than those transform sets
NonCdc(fields) == [k \in DOMAIN fields \ MetadataKeys |-> fields[k]]

\* the event is on a table the transformer resolves
OnKnownTable(ev) == extract_table_name(ev.topic) # "none"

\* a decoded event in the envelope form: the payload is a JSON object and its
\* source block, if any, is an object
WellFormed(ev) == ev.decode = "ok" /\ ev.payload = "dict" /\ ev.source # "null"

\* C22: for every event on a known table whose operation is create ('c') or
\* read/snapshot ('r') and whose after-state is a row, transform returns a
\* row tagged cdc_operation = INSERT whose columns, apart from those transform
\* sets, are exactly the columns and values of after.
C22_InsertKeepsAfter ==
    (/\ tlast.n > 0
     /\ WellFormed(tlast.ev) /\ OnKnownTable(tlast.ev)
     /\ tlast.ev.op \in {"c", "r"}
     /\ tlast.ev.after = "row") =>
        /\ tlast.outcome = "row"
        /\ tlast.fields["cdc_operation"] = "INSERT"
        /\ NonCdc(tlast.fields) = AfterValue(tlast.ev)

\* a snapshot read whose row holds a null column, transformed as the second
\* event
C22_Witness ==
    /\ tlast.n = 2
    /\ tlast.ev.op = "r"
    /\ tlast.ev.after = "row"
    /\ tlast.outcome = "row"
    /\ tlast.fields["cdc_operation"] = "INSERT"
    /\ tlast.fields["customer_id"] = "1"
    /\ tlast.fields["notes"] = "None"

\* C23: for every update ('u') event on a known table, if after is a
\* non-empty row transform returns a row built from after and tagged
\* cdc_operation = UPDATE; if after is empty, null or missing, the result is
\* skip and no exception escapes (nothing is counted as an error or a failed
\* message).
C23_UpdateNeedsAfter ==
    (/\ tlast.n > 0
     /\ WellFormed(tlast.ev) /\ OnKnownTable(tlast.ev)
     /\ tlast.ev.op = "u") =>
        IF tlast.ev.after = "row"
        THEN /\ tlast.outcome = "row"
             /\ tlast.fields["cdc_operation"] = "UPDATE"
             /\ tlast.fields["table"] = LastSegment(tlast.ev.topic)
             /\ NonCdc(tlast.fields) = AfterValue(tlast.ev)
        ELSE /\ tlast.outcome = "None"
             /\ tstats.errors = tlast.pre_tstats.errors
             /\ metrics = tlast.pre_metrics

\* an update whose after-state is the empty mapping, skipped as the second
\* event after an update that gave a row
C23_Witness ==
    /\ tlast.n = 2
    /\ tlast.ev.op = "u"
    /\ tlast.ev.after = "empty"
    /\ OnKnownTable(tlast.ev)
    /\ tlast.outcome = "None"
    /\ tlast.pre_tstats.updates = 1
    /\ tstats.updates = 2
    /\ tstats.errors = 0

\* C24: for every delete ('d') event on a known table, if before is a
\* non-empty row transform returns before's fields plus the CDC provenance
\* columns with cdc_operation = DELETE; if before is empty, null or missing,
\* the result is skip.  The row is returned like any other, to be inserted:
\* a delete is never a removal.
C24_DeleteEmitsBefore ==
    (/\ tlast.n > 0
     /\ WellFormed(tlast.ev) /\ OnKnownTable(tlast.ev)
     /\ tlast.ev.op = "d") =>
        IF tlast.ev.before = "row"
        THEN /\ tlast.outcome = "row"
             /\ tlast.fields["cdc_operation"] = "DELETE"
             /\ tlast.fields["table"] = LastSegment(tlast.ev.topic)
             /\ NonCdc(tlast.fields) = BeforeValue(tlast.ev)
             /\ MetadataKeys \subseteq DOMAIN tlast.fields
        ELSE tlast.outcome = "None"

\* a delete with a before-state and no source block: the row carries the
\* default provenance
C24_Witness ==
    /\ tlast.n = 2
    /\ tlast.ev.op = "d"
    /\ tlast.ev.before = "row"
    /\ tlast.ev.source = "absent"
    /\ tlast.outcome = "row"
    /\ tlast.fields["cdc_operation"] = "DELETE"
    /\ tlast.fields["updated_at"] = "t1"
    /\ tlast.fields["cdc_source_db"] = "ecommerce_db"
    /\ tstats.deletes > 0

\* C25: table resolution.  For every topic name the destination table is the
\* topic's final dot-delimited segment if that segment is in the allow-list,
\* and otherwise the event is skipped; no other part of the topic name
\* influences the result.  (Seen on create/read events with an after-state:
\* they give a row for that table, and the event is counted as an insert.)
C25_TableFromLastSegment ==
    (tlast.n > 0 /\ WellFormed(tlast.ev)) =>
        IF LastSegment(tlast.ev.topic) \in DOMAIN TABLE_MAPPING
        THEN (tlast.ev.op \in {"c", "r"} /\ tlast.ev.after = "row") =>
                /\ tlast.outcome = "row"
                /\ tlast.fields["table"] =
                       TABLE_MAPPING[LastSegment(tlast.ev.topic)]
                /\ tstats.inserts = tlast.pre_tstats.inserts + 1
        ELSE /\ tlast.outcome = "None"
             /\ tstats = tlast.pre_tstats

\* the fields of a row that hold a time
TimestampKeys == {"cdc_timestamp", "event_time"}

\* a row without its timestamp fields
NonTimestamp(fields) == [k \in DOMAIN fields \ TimestampKeys |-> fields[k]]

\* states of the transformer's counters: fresh, as they were before and after
\* the last call, and after MaxTransforms events of every kind
TStatsSamples ==
    {InitTStats, tlast.pre_tstats, tstats,
     [inserts |-> MaxTransforms, updates |-> MaxTransforms,
      deletes |-> MaxTransforms, errors |-> MaxTransforms]}

\* C26: transforming the same change event twice yields results that agree
\* on every field other than the timestamp fields (same skip/row outcome, same
\* table, same cdc_operation, same data columns and source columns), whatever
\* transformations ran in between: the result of the last call agrees with
\* that of transforming its event again in any state of the transformer and
\* at any reading of the clock.
C26_TransformTwiceAgrees ==
    (tlast.n > 0 /\ tlast.ev.decode = "ok") =>
        \A ts \in TStatsSamples, now \in Clock :
            LET again == transform(tlast.ev, ts, 0, tlast.n - 1, now).result
            IN  /\ (again.kind = "row") <=> (tlast.outcome = "row")
                /\ again.kind = "row" =>
                       NonTimestamp(again.fields) = NonTimestamp(tlast.fields)

\* a row made after another event had been transformed, whose cdc_timestamp
\* came from the clock: transformed again at another time it gets another
\* cdc_timestamp
C26_Witness ==
    /\ tlast.n = 2
    /\ tlast.outcome = "row"
    /\ tlast.pre_tstats # InitTStats
    /\ \E now \in Clock :
          transform(tlast.ev, tstats, 0, 1, now).result.fields["cdc_timestamp"]
              # tlast.fields["cdc_timestamp"]

\* the source commit time an event carries: ts_ms of its source block or, in a
\* flattened payload, source_ts_ms; NoMs if it has neither
CommitTime(ev) ==
    IF ev.source = "dict" /\ ev.commit_ms # NoMs THEN ev.commit_ms
    ELSE ev.source_ts_ms

\* C27: cdc_timestamp of a produced row is derived from the source commit time
\* in milliseconds carried by the payload (source.ts_ms) whenever that field
\* is present, and falls back to processing time only when the commit time is
\* absent.
C27_TimestampFromCommitTime ==
    (tlast.n > 0 /\ tlast.outcome = "row") =>
        IF CommitTime(tlast.ev) # NoMs
        THEN tlast.fields["cdc_timestamp"] = fromtimestamp(CommitTime(tlast.ev))
        ELSE tlast.fields["cdc_timestamp"] = fromtimestamp(tlast.now)

-----------------------------------------------------------------------------
(* Properties of the statistics counters (Spec) *)

\* C30 (step): no step lowers a counter of the loader or of the transformer
C30_CountersStep ==
    /\ stats'.inserts >= stats.inserts
    /\ stats'.errors >= stats.errors
    /\ stats'.batches >= stats.batches
    /\ tstats'.inserts >= tstats.inserts
    /\ tstats'.updates >= tstats.updates
    /\ tstats'.deletes >= tstats.deletes
    /\ tstats'.errors >= tstats.errors

\* C30: every statistics counter of the loader (inserts, errors, batches) and
\* of the transformer (inserts, updates, deletes, errors) is non-decreasing
\* over any sequence of operations; no operation resets or decrements a
\* counter during the process lifetime.
C30_CountersNeverDecrease == [][C30_CountersStep]_vars

\* the process has ended after an insert that succeeded on a retry, with an
\* event that raised inside transform and a row counted by the transformer
C30_Witness ==
    /\ pc = "exited"
    /\ stats.errors > 0
    /\ stats.batches > 0
    /\ stats.inserts > 0
    /\ tstats.errors > 0
    /\ tstats.inserts + tstats.deletes > 1

-----------------------------------------------------------------------------
(* Properties of an undisturbed stream (StreamSpec) *)

\* ceil(k / n)
CeilDiv(k, n) == (k + n - 1) \div n

\* the number of rows handed over by the first i load_batch calls
RECURSIVE HandedCount(_)
HandedCount(i) ==
    IF i = 0 THEN 0 ELSE Len(handed[i].records) + HandedCount(i - 1)

\* every row-producing event so far was for one table
OneTableStream ==
    \E t \in DOMAIN TABLE_MAPPING :
        /\ \A i \in DOMAIN handed : handed[i].table = t
        /\ \A i \in DOMAIN message_batch : message_batch[i].table = t

\* the stream has been handled: run() has ended with nothing pending
StreamDone == pc = "exited" /\ message_batch = <<>>

\* the load calls are those of K rows cut into pieces of N: each of N rows
\* except a last one holding the remainder, ceil(K / N) in all, one commit
\* per call
LoadsOfCeil ==
    LET K == metrics.messages_processed
        N == batch_size
    IN  /\ Len(handed) = CeilDiv(K, N)
        /\ \A i \in DOMAIN handed :
              Len(handed[i].records) = IF i < Len(handed) THEN N
                                       ELSE K - N * (Len(handed) - 1)
        /\ metrics.batches_committed = Len(handed)
        /\ calls = Len(handed)

NoEarlyIdleFlush ==
    \A i \in DOMAIN handed : i < Len(handed) => handed[i].trigger = "size"

RECURSIVE HandedRows(_)
HandedRows(i) ==
    IF i = 0 THEN <<>> ELSE HandedRows(i - 1) \o handed[i].records

\* a partition of the subscription is a topic and a partition number; the
\* topic of a row is that of its table
SamePartition(r1, r2) == r1.table = r2.table /\ r1.part = r2.part

\* in rows, the rows of each partition are in increasing offset order
InOffsetOrder(rows) ==
    \A i, j \in DOMAIN rows :
        (i < j /\ SamePartition(rows[i], rows[j])) => rows[i].off < rows[j].off

\* C29 (state): for each partition the rows handed to the loader are in
\* increasing offset order, inside one call and across the calls, and so are
\* the rows pending; a call of the window in progress holds the window's rows
\* of its table, in the order they have in the window.
C29_LoadOrder ==
    /\ InOffsetOrder(HandedRows(Len(handed)))
    /\ InOffsetOrder(message_batch)
    /\ pc = "loop" => InOffsetOrder(HandedRows(Len(handed)) \o message_batch)
    /\ \A i \in DOMAIN handed :
          (window.open /\ handed[i].window = window.n) =>
              handed[i].records =
                  SelectSeq(window.rows, LAMBDA r : r.table = handed[i].table)

\* C29 (step): a row takes its place in the pending batch behind the rows
\* that arrived before it
C29_ArrivalStep ==
    Len(message_batch') > Len(message_batch) =>
        /\ Len(message_batch') = Len(message_batch) + 1
        /\ SubSeq(message_batch', 1, Len(message_batch)) = message_batch
        /\ message_batch'[Len(message_batch')].off
               = position[message_batch'[Len(message_batch')].part]

\* C29: for each partition, the rows handed to the loader appear in increasing
\* offset order, both inside one load_batch call and across successive calls;
\* inside one window the rows of a table keep their arrival order.
C29_LoadedInOffsetOrder == []C29_LoadOrder /\ [][C29_ArrivalStep]_vars

\* a window of two tables in which the rows of a table, from one partition,
\* are not adjacent: both calls of the window have been made
C29_Witness ==
    /\ window.open
    /\ Len(window.rows) = 3
    /\ window.rows[1].table # window.rows[2].table
    /\ SamePartition(window.rows[1], window.rows[3])
    /\ Len(handed) = 2
    /\ handed[1].records = <<window.rows[1], window.rows[3]>>
    /\ handed[2].records = <<window.rows[2]>>

-----------------------------------------------------------------------------
(* Properties of the administrative operations (AdminSpec) *)

\* C31: round trip.  When no failure has occurred, load_batch(table, rows) on
\* a known table followed by get_table_count(table) reports a count that is
\* exactly len(rows) larger than the count before the load.
C31_CountReflectsLoad ==
    (/\ call.state = "returned"
     /\ call.result = "True"
     /\ call.table \in DOMAIN TABLE_SCHEMAS
     /\ stats.errors = 0
     /\ admin.op = "get_table_count"
     /\ admin.table = call.table
     /\ admin.outcome = "ok") =>
        admin.result = call.pre_store[call.table] + Len(call.records)

\* a load of MaxRows rows into a table that already held rows, then counted
C31_Witness ==
    /\ call.state = "returned"
    /\ call.result = "True"
    /\ Len(call.records) = MaxRows
    /\ call.pre_store[call.table] > 0
    /\ stats.errors = 0
    /\ admin.op = "get_table_count"
    /\ admin.table = call.table
    /\ admin.outcome = "ok"
    /\ admin.result = call.pre_store[call.table] + MaxRows

\* C32: the administrative read operations of the loader (row count, ad-hoc
\* query, compaction trigger) never use the store connection that load_batch
\* uses for its writes: they run on an independent connection.
C32_AdminOnOwnConnection ==
    (admin.op # "none" /\ call.conn # "none") => admin.conn # call.conn

-----------------------------------------------------------------------------
(* Properties of a flush in progress (Spec) *)

\* _process_batch is between its grouping and its finally block
InFlush == pc \in {"batch", "load"}

\* C33 (step): while a flush is in progress, a shutdown request changes the
\* flag and nothing else; every attempt of the load in flight is followed by
\* another one unless it succeeded, returned False or was the third; when all
\* loads have returned the commit is called; the loop leaves the flush only
\* with the window committed or the load given up, and after a flush that was
\* not the final one it is back at the loop head.
C33_FlushStep ==
    InFlush =>
        /\ running' # running =>
              /\ pc' = pc /\ frame' = frame /\ call' = call
              /\ message_batch' = message_batch /\ window' = window
              /\ committed' = committed /\ metrics' = metrics
        /\ (call.state = "running" /\ call' # call) =>
              /\ call'.attempt = call.attempt + 1
              /\ call'.result = "RetryError" => call'.executes = StopAfterAttempt
              /\ call'.state = "running" =>
                     (IsClickHouseError(call'.last)
                        /\ call'.attempt < StopAfterAttempt)
        /\ (pc = "batch" /\ frame.idx > Len(frame.tables) /\ pc' # pc) =>
              /\ window'.commit_called
              /\ exit_code' # 1 =>
                     (committed' = position /\ commits' = commits + 1)
        /\ ~InFlush' =>
              /\ ~window'.open
              /\ window'.commit_called \/ window'.raised
              /\ (frame.ret # "final" /\ exit_code' # 1) => pc' = "loop"
              /\ frame.ret = "final" => pc' = "exited"

\* C33: a shutdown request that arrives while a flush is in progress (during
\* load retries or the commit included) does not abort it: the load in flight
\* runs all its attempts to success or exhaustion, a successful window is
\* still committed, and only afterwards does the loop leave RUNNING.  Whatever
\* the flag says, the main thread has a next step while the flush lasts.
C33_ShutdownDuringFlush ==
    /\ [][C33_FlushStep]_vars
    /\ [](InFlush => ENABLED MainStep)

\* shutdown was requested during the first flush, one started because the
\* batch was full; its load has succeeded on the third attempt and the commit
\* is next
C33_Witness ==
    /\ pc = "batch"
    /\ ~running
    /\ frame.ret = "size"
    /\ window.open
    /\ window.n = 1
    /\ frame.idx > Len(frame.tables)
    /\ ~window.failed
    /\ stats.errors = 2
    /\ stats.batches = 1

-----------------------------------------------------------------------------
(* Properties of the loop metrics (Spec) *)

\* C34 (step): batches_committed moves only by one, in the step in which a
\* commit returns; a flush that ends without a commit that returned leaves
\* batches_committed and last_commit_time as they were.
C34_MetricsStep ==
    /\ metrics'.batches_committed # metrics.batches_committed =>
          /\ metrics'.batches_committed = metrics.batches_committed + 1
          /\ commits' = commits + 1
          /\ committed' = position
          /\ InFlush
    /\ commits' = commits =>
          /\ metrics'.batches_committed = metrics.batches_committed
          /\ metrics'.last_commit_time = metrics.last_commit_time

\* C34: the loop metrics stay consistent with the commits performed:
\* batches_committed equals the number of offset commits that completed
\* successfully, it never increases on a flush that did not commit, and
\* last_commit_time is unset exactly while batches_committed is 0.
C34_MetricsConsistent ==
    /\ [](/\ metrics.batches_committed = commits
          /\ metrics.last_commit_time = "None" <=> metrics.batches_committed = 0)
    /\ [][C34_MetricsStep]_vars

\* a committed flush followed by a flush that ended without a commit
C34_Witness ==
    /\ window.n = 2
    /\ ~window.open
    /\ commits = 1
    /\ metrics.batches_committed = 1
    /\ metrics.last_commit_time = "set"
    /\ window.pre_bc = 1

-----------------------------------------------------------------------------
(* Properties of a flush of nothing (FlushSpec) *)

\* nothing is loaded, nothing is committed and the metrics stay as they are
NothingFlushed ==
    /\ calls' = calls /\ call' = call /\ handed' = handed
    /\ stats' = stats /\ store' = store
    /\ committed' = committed /\ commits' = commits
    /\ metrics' = metrics
    /\ window' = window /\ frame' = frame

\* C35 (step): a _process_batch call that finds the pending batch empty
\* returns to the loop having done nothing; and with an empty batch neither
\* an empty poll nor the end of the loop does anything of a flush.
C35_EmptyFlushStep ==
    /\ (flushes' = flushes + 1 /\ message_batch' = <<>>) =>
          (NothingFlushed /\ pc' = pc)
    /\ (pc = "loop" /\ message_batch = <<>> /\ message_batch' = <<>>) =>
          NothingFlushed

\* C35: a flush requested while the pending batch is empty is a no-op: no
\* load call, no offset commit, and no change to metrics.
C35_EmptyFlushIsNoOp == [][C35_EmptyFlushStep]_vars

\* with batch_size 0 every message asked for a flush; all were skipped, so
\* each flush found the batch empty and nothing was loaded or committed
C35_Witness ==
    /\ batch_size = 0
    /\ flushes = MaxStream
    /\ Cardinality(skipped) = MaxStream
    /\ window.n = 0
    /\ calls = 0
    /\ commits = 0
    /\ metrics = InitMetrics
    /\ pc = "loop"

-----------------------------------------------------------------------------
(* Properties of the grouping by table (Spec) *)

\* the load_batch calls of the flush window in progress or last finished
WindowCalls == {i \in DOMAIN handed : handed[i].window = window.n}

\* the places (call, index) at which row was passed to load_batch in this
\* window
PassedAt(row) ==
    {c \in WindowCalls \X (1 .. Len(window.rows)) :
        /\ c[2] \in DOMAIN handed[c[1]].records
        /\ handed[c[1]].records[c[2]] = row}

\* the number of rows passed to load_batch by the calls in S
RECURSIVE PassedCount(_)
PassedCount(S) ==
    IF S = {} THEN 0
    ELSE LET i == CHOOSE j \in S : TRUE
         IN  Len(handed[i].records) + PassedCount(S \ {i})

\* a flush has made its load calls and none of them raised
FlushLoadsDone ==
    /\ window.n > 0
    /\ ~window.raised
    /\ ~window.open \/ (pc = "batch" /\ frame.idx > Len(frame.tables))

\* C36: in one flush without a raised load error, the pending batch is
\* partitioned by table: every pending row is passed to exactly one
\* load_batch call, that call's table equals the row's table, and the total
\* number of rows passed equals the number of pending rows.
C36_BatchPartitionedByTable ==
    FlushLoadsDone =>
        /\ \A k \in DOMAIN window.rows :
              /\ Cardinality(PassedAt(window.rows[k])) = 1
              /\ \A c \in PassedAt(window.rows[k]) :
                    handed[c[1]].table = window.rows[k].table
        /\ \A i, j \in WindowCalls : i # j => handed[i].table # handed[j].table
        /\ PassedCount(WindowCalls) = Len(window.rows)

\* a window of rows for two tables: both loads were made, one of them
\* returned False, and the flush went on to its commit
C36_Witness ==
    /\ FlushLoadsDone
    /\ ~window.open
    /\ window.failed
    /\ Len(window.rows) = 2
    /\ window.rows[1].table # window.rows[2].table
    /\ Cardinality(WindowCalls) = 2

-----------------------------------------------------------------------------
(* Progress of the pending rows (FairSpec) *)

\* the row made from the message at (p, o) is in the pending batch
Pending(p, o) ==
    \E i \in DOMAIN message_batch :
        message_batch[i].part = p /\ message_batch[i].off = o

\* the row made from the message at (p, o) has been passed to load_batch
Passed(p, o) ==
    \E i \in DOMAIN handed : \E j \in DOMAIN handed[i].records :
        handed[i].records[j].part = p /\ handed[i].records[j].off = o

\* an exception has ended the loop
FatalEnd == pc = "exited" /\ exit_code = 1

\* the loop is not going round with polls that give neither an empty result
\* nor a message: a poll came back empty, shutdown has been requested, or the
\* loop is in a flush or over
FlushTrigger == last_poll = "None" \/ ~running \/ pc # "loop"

\* C37: every row appended to the pending batch is eventually passed to
\* load_batch, provided that the broker eventually returns an empty poll, the
\* batch fills, or shutdown is requested, and that no fatal error ends the
\* loop first.
C37_PendingEventuallyLoaded ==
    []<>FlushTrigger =>
        \A p \in Partitions, o \in Offsets :
            Pending(p, o) ~> (Passed(p, o) \/ FatalEnd)

\* a row that waited in a batch not yet full has been passed to load_batch by
\* the flush an empty poll started
C37_Witness ==
    /\ Len(handed) = 1
    /\ handed[1].trigger = "idle"
    /\ batch_size = MaxBatchSize
    /\ Len(handed[1].records) = 1
    /\ Passed(handed[1].records[1].part, handed[1].records[1].off)
    /\ ~Pending(handed[1].records[1].part, handed[1].records[1].off)
    /\ pc = "loop"

-----------------------------------------------------------------------------
(* Properties of the writes of one call (LoaderSpec) *)

\* C38 (state): since the call began the store has taken the call's rows
\* once, if an attempt has succeeded, and nothing otherwise; a successful
\* attempt has ended the call.
C38_OneInsertState ==
    call.owner # "none" =>
        /\ \A t \in DOMAIN store :
              store[t] = call.pre_store[t]
                  + (IF t = call.table /\ call.last = "ok"
                     THEN Len(call.records) ELSE 0)
        /\ call.last = "ok" => call.state = "returned"
        /\ stats.batches - call.pre.batches = (IF call.last = "ok" THEN 1 ELSE 0)

\* C38 (step): after a successful attempt the call makes no further attempt
C38_OneInsertStep ==
    (call.last = "ok" /\ call' # call) => call'.attempt = 0

\* C38: one load_batch call performs at most one successful bulk insert:
\* after an attempt succeeds no further attempt is made, so retries inside a
\* single call never insert the same rows twice.
C38_AtMostOneInsertPerCall == []C38_OneInsertState /\ [][C38_OneInsertStep]_vars

\* rows inserted by the third attempt of a call, into a table that held rows
\* of an earlier call
C38_Witness ==
    /\ call.state = "returned"
    /\ call.last = "ok"
    /\ call.executes = StopAfterAttempt
    /\ Len(call.records) = MaxRows
    /\ call.pre_store[call.table] > 0
    /\ store[call.table] = call.pre_store[call.table] + MaxRows

-----------------------------------------------------------------------------
(* Properties of the transformer's counters (TransformSpec) *)

\* what the last call added to the counter of the operation tag op: 1 if it
\* emitted a row with that tag, 0 otherwise
EmittedWith(op) ==
    IF tlast.outcome = "row" /\ tlast.fields["cdc_operation"] = op
    THEN 1 ELSE 0

\* C39: the transformer's inserts, updates and deletes counters count exactly
\* the rows emitted with cdc_operation INSERT, UPDATE and DELETE respectively:
\* an event that ends as skip (for example an update with empty after-state)
\* does not increase any of the three.
C39_CountersCountRows ==
    tlast.n > 0 =>
        /\ tstats.inserts = tlast.pre_tstats.inserts + EmittedWith("INSERT")
        /\ tstats.updates = tlast.pre_tstats.updates + EmittedWith("UPDATE")
        /\ tstats.deletes = tlast.pre_tstats.deletes + EmittedWith("DELETE")

====
